---------------------------- MODULE Spec2Model ----------------------------
(***************************************************************************)
(* A model of release-watcher: the staleness evaluator                     *)
(* (getEmptyAndStaleStreams), the upgrade evaluator (checkUpgrades), the   *)
(* report builder (generateReport) and the renderer (report.String).      *)
(*                                                                         *)
(* Stream names and version strings are sequences of one-character         *)
(* strings, so that the regular expressions, strconv.Atoi and the byte     *)
(* order of sort.Strings are computed on the text and not assumed.         *)
(* A payload name is a record of its version text and of what             *)
(* getPayloadTimestamp makes of its date suffix: whether it parses, and    *)
(* the build time it gives.  Times and durations are in hours.             *)
(***************************************************************************)
EXTENDS Integers, Sequences, FiniteSets, TLC

(***************************************************************************)
(* Text                                                                    *)
(***************************************************************************)

\* the byte value of the characters that occur in names
Ord ==
  [c \in {"-", ".", "0", "1", "2", "3", "4", "5", "6", "7", "8", "9",
          "c", "d", "g", "h", "i", "k", "l", "n", "o", "t", "y"} |->
     CASE c = "-" -> 45 [] c = "." -> 46
       [] c = "0" -> 48 [] c = "1" -> 49 [] c = "2" -> 50 [] c = "3" -> 51
       [] c = "4" -> 52 [] c = "5" -> 53 [] c = "6" -> 54 [] c = "7" -> 55
       [] c = "8" -> 56 [] c = "9" -> 57
       [] c = "c" -> 99 [] c = "d" -> 100 [] c = "g" -> 103 [] c = "h" -> 104
       [] c = "i" -> 105 [] c = "k" -> 107 [] c = "l" -> 108 [] c = "n" -> 110
       [] c = "o" -> 111 [] c = "t" -> 116 [] c = "y" -> 121]

IsDigit(c) == Ord[c] >= 48 /\ Ord[c] <= 57

\* s has the literal lit at position p
HasLit(s, p, lit) ==
  /\ p >= 1
  /\ p + Len(lit) - 1 <= Len(s)
  /\ \A i \in 1..Len(lit) : s[p + i - 1] = lit[i]

\* the last position of the run of digits that starts at p (p - 1 when s[p] is no digit)
DigitRunEnd(s, p) ==
  LET ends == {q \in (p - 1)..Len(s) : \A i \in p..q : IsDigit(s[i])}
  IN  CHOOSE q \in ends : \A r \in ends : r <= q

\* strings of the standard library: lexical order on bytes
StringLess(a, b) ==
  \E i \in 1..(Len(a) + 1) :
    /\ i <= Len(b)
    /\ \A j \in 1..(i - 1) : j <= Len(a) /\ a[j] = b[j]
    /\ (i = Len(a) + 1 \/ (i <= Len(a) /\ Ord[a[i]] < Ord[b[i]]))

\* strconv.Atoi on a run of digits (the callers drop its error)
RECURSIVE Atoi(_)
Atoi(ds) ==
  IF Len(ds) = 0 THEN 0
  ELSE 10 * Atoi(SubSeq(ds, 1, Len(ds) - 1)) + (Ord[ds[Len(ds)]] - 48)

\* `4\.([1-9][0-9]*)` at position p: the end of the digit run, or 0
MinorEndAt(s, p) ==
  IF HasLit(s, p, <<"4", ".">>) /\ p + 2 <= Len(s)
       /\ IsDigit(s[p + 2]) /\ s[p + 2] # "0"
  THEN DigitRunEnd(s, p + 2)
  ELSE 0

\* zReleaseRegex `4\.([1-9][0-9]*)\.0-0\.(ci|nightly)` matches at position p
zReleaseAt(s, p) ==
  LET q == MinorEndAt(s, p)
  IN  /\ q > 0
      /\ \/ HasLit(s, q + 1, <<".", "0", "-", "0", ".", "c", "i">>)
         \/ HasLit(s, q + 1, <<".", "0", "-", "0", ".", "n", "i", "g", "h", "t", "l", "y">>)

\* extractMinorRegex `4\.([1-9][0-9]*)\.[0-9]+` matches at position p
extractMinorAt(s, p) ==
  LET q == MinorEndAt(s, p)
  IN  /\ q > 0
      /\ HasLit(s, q + 1, <<".">>)
      /\ q + 2 <= Len(s)
      /\ IsDigit(s[q + 2])

NoMatch == <<>>

\* zReleaseRegex.FindStringSubmatch(s): NoMatch (nil), or <<matches[1]>> of the
\* leftmost match
zReleaseRegex(s) ==
  LET at == {p \in 1..Len(s) : zReleaseAt(s, p)}
  IN  IF at = {} THEN NoMatch
      ELSE LET p == CHOOSE x \in at : \A y \in at : x <= y
           IN  <<SubSeq(s, p + 2, MinorEndAt(s, p))>>

\* extractMinorRegex.FindStringSubmatch(s), likewise
extractMinorRegex(s) ==
  LET at == {p \in 1..Len(s) : extractMinorAt(s, p)}
  IN  IF at = {} THEN NoMatch
      ELSE LET p == CHOOSE x \in at : \A y \in at : x <= y
           IN  <<SubSeq(s, p + 2, MinorEndAt(s, p))>>

\* sequences of distinct elements of S, of length at most n
RECURSIVE DistinctSeqs(_, _)
DistinctSeqs(S, n) ==
  IF n = 0 THEN {<<>>}
  ELSE LET shorter == DistinctSeqs(S, n - 1)
           longest == {t \in shorter : Len(t) = n - 1}
           fresh(q) == {x \in S : \A i \in 1..Len(q) : q[i] # x}
       IN  shorter \cup UNION {{Append(q, x) : x \in fresh(q)} : q \in longest}

(***************************************************************************)
(* Names                                                                   *)
(***************************************************************************)

\* the decimal text of n, for building names
RECURSIVE Itoa(_)
Itoa(n) ==
  LET d == <<"0", "1", "2", "3", "4", "5", "6", "7", "8", "9">>[(n % 10) + 1]
  IN  IF n < 10 THEN <<d>> ELSE Append(Itoa(n \div 10), d)

ci == <<"c", "i">>
nightly == <<"n", "i", "g", "h", "t", "l", "y">>
okd == <<"o", "k", "d">>

\* the stream name 4.<minor>.0-0.<kind>
StreamName(minor, kind) ==
  <<"4", ".">> \o Itoa(minor) \o <<".", "0", "-", "0", ".">> \o kind

\* the version text 4.<minor>.<patch>
Version(minor, patch) == <<"4", ".">> \o Itoa(minor) \o <<".">> \o Itoa(patch)

(***************************************************************************)
(* Time, in hours                                                          *)
(***************************************************************************)

\* time.Now(), in hours since the zero time.Time
Now == 17756000
\* time.Time{}
ZeroTime == 0
\* the largest time.Duration (1<<63 - 1 nanoseconds), in hours
MaxDuration == 2562047

\* t.Sub(u): the difference, saturated at the largest Duration
Sub(t, u) == IF t - u > MaxDuration THEN MaxDuration ELSE t - u

\* a payload name: its version text and the build time of its date suffix
Payload(version, age) == [version |-> version, dated |-> TRUE, built |-> Now - age]
\* a payload name with no date suffix
Undated(version) == [version |-> version, dated |-> FALSE, built |-> ZeroTime]

\* getPayloadTimestamp: err # nil when the name has no parsable date suffix
getPayloadTimestamp(payload) ==
  IF payload.dated THEN [err |-> FALSE, ts |-> payload.built]
  ELSE [err |-> TRUE, ts |-> ZeroTime]

(***************************************************************************)
(* getEmptyAndStaleStreams                                                 *)
(***************************************************************************)

\* the minor of a z-stream name that lies in [oldestMinor, newestMinor]
StaleInRange(stream, oldest, newest) ==
  LET matches == zReleaseRegex(stream)
  IN  IF matches = NoMatch THEN FALSE
      ELSE IF Atoi(matches[1]) < oldest THEN FALSE
      ELSE IF Atoi(matches[1]) > newest THEN FALSE
      ELSE TRUE

\* delta.Minutes() < threshold.Minutes()
StaleIsFreshMutant(delta, threshold) == delta <= threshold
StaleIsFresh(delta, threshold) == delta < threshold

\* ts.After(newest)
AfterMutant(t, u) == t < u
After(t, u) == t > u

\* the loop over a stream's payloads: freshPayload and newest after payload i..
RECURSIVE ScanPayloads(_, _, _, _, _)
ScanPayloads(payloads, i, threshold, freshPayload, newest) ==
  IF i > Len(payloads) THEN [freshPayload |-> freshPayload, newest |-> newest]
  ELSE LET r == getPayloadTimestamp(payloads[i])
           delta == Sub(Now, r.ts)
       IN  IF r.err
           THEN ScanPayloads(payloads, i + 1, threshold, freshPayload, newest)
           ELSE ScanPayloads(payloads, i + 1, threshold,
                             freshPayload \/ StaleIsFresh(delta, threshold),
                             IF After(r.ts, newest) THEN r.ts ELSE newest)

\* the streams the function puts in emptyStreams
EmptyStreamsMutant(releases, oldest, newest) ==
  {stream \in DOMAIN releases : Len(releases[stream]) = 0}
EmptyStreams(releases, oldest, newest) ==
  {stream \in DOMAIN releases :
     StaleInRange(stream, oldest, newest) /\ Len(releases[stream]) = 0}

\* the map the function returns as staleStreams
StaleStreamsMutant(releases, threshold, oldest, newest) ==
  LET scan(stream) == ScanPayloads(releases[stream], 1, threshold, FALSE, ZeroTime)
      stale == {stream \in DOMAIN releases :
                  /\ StaleInRange(stream, oldest, newest)
                  /\ ~scan(stream).freshPayload}
  IN  [stream \in stale |-> Sub(Now, scan(stream).newest)]
StaleStreams(releases, threshold, oldest, newest) ==
  LET scan(stream) == ScanPayloads(releases[stream], 1, threshold, FALSE, ZeroTime)
      stale == {stream \in DOMAIN releases :
                  /\ StaleInRange(stream, oldest, newest)
                  /\ Len(releases[stream]) # 0
                  /\ ~scan(stream).freshPayload}
  IN  [stream \in stale |-> Sub(Now, scan(stream).newest)]

\* getEmptyAndStaleStreams(releases, threshold, oldestMinor, newestMinor, _)
getEmptyAndStaleStreams(releases, threshold, oldest, newest) ==
  [emptyStreams |-> EmptyStreams(releases, oldest, newest),
   staleStreams |-> StaleStreams(releases, threshold, oldest, newest)]

(***************************************************************************)
(* checkUpgrades: the parts without state                                  *)
(***************************************************************************)

\* a nil *found, and a nil slice of the graph
Nil == <<>>

\* fmt's %0.1f of d.Hours()/24: tenths of a day, halves rounded to even
Days(age) ==
  LET q == (age * 10) \div 24
      r == (age * 10) % 24
  IN  IF r < 12 THEN q
      ELSE IF r > 12 THEN q + 1
      ELSE IF q % 2 = 0 THEN q ELSE q + 1

\* the stream filter of checkUpgrades: a z-stream with oldest <= minor <= newest
UpgradeInRangeMutant(release, oldest, newest) ==
  LET matches == zReleaseRegex(release)
  IN  IF matches = NoMatch THEN FALSE
      ELSE IF Atoi(matches[1]) < oldest THEN FALSE
      ELSE TRUE
UpgradeInRange(release, oldest, newest) ==
  LET matches == zReleaseRegex(release)
  IN  IF matches = NoMatch THEN FALSE
      ELSE IF Atoi(matches[1]) < oldest THEN FALSE
      ELSE IF Atoi(matches[1]) > newest THEN FALSE
      ELSE TRUE

\* age.Minutes() > stalenessThreshold.Minutes(): the payload is skipped
UpgradeTooOldMutant(age, threshold) == age >= threshold
UpgradeTooOld(age, threshold) == age > threshold

\* toVersion == fromVersion
IsPatchMutant(toVersion, fromVersion) == toVersion >= fromVersion
IsPatch(toVersion, fromVersion) == toVersion = fromVersion

\* toVersion == fromVersion+1
IsMinorMutant(toVersion, fromVersion) == toVersion > fromVersion
IsMinor(toVersion, fromVersion) == toVersion = fromVersion + 1

\* graph[payload]
Predecessors(graph, payload) ==
  IF payload \in DOMAIN graph THEN graph[payload] ELSE Nil

NoPatchMessage == <<"Does not have a recent valid patch level upgrade">>
NoMinorMessage == <<"Does not have a recent valid minor level upgrade">>
PatchMessage(f) ==
  <<"Has a recent valid patch level upgrade from %s %0.1f days ago", f.Version, Days(f.Age)>>
MinorMessage(f) ==
  <<"Has a recent valid minor level upgrade from %s %0.1f days ago", f.Version, Days(f.Age)>>

\* the messages checkUpgrades gives a stream once its payloads are scanned
UpgradeMessagesMutant(fPatch, fMinor) ==
  [healthyMessages |->
     (IF fPatch = Nil THEN <<>> ELSE <<PatchMessage(fPatch[1])>>) \o
     (IF fMinor = Nil THEN <<>> ELSE <<MinorMessage(fMinor[1])>>),
   unhealthyMessages |->
     (IF fPatch = Nil /\ fMinor = Nil THEN <<NoPatchMessage>> ELSE <<>>)]
UpgradeMessages(fPatch, fMinor) ==
  [healthyMessages |->
     (IF fPatch = Nil THEN <<>> ELSE <<PatchMessage(fPatch[1])>>) \o
     (IF fMinor = Nil THEN <<>> ELSE <<MinorMessage(fMinor[1])>>),
   unhealthyMessages |->
     (IF fPatch = Nil THEN <<NoPatchMessage>> ELSE <<>>) \o
     (IF fMinor = Nil THEN <<NoMinorMessage>> ELSE <<>>)]

(***************************************************************************)
(* report.String: the parts without state                                  *)
(***************************************************************************)

\* sort.Strings on the keys of rep.streams: the keys in ascending byte order
RECURSIVE SortStrings(_)
SortStrings(S) ==
  IF S = {} THEN <<>>
  ELSE LET least == CHOOSE x \in S : \A y \in S \ {x} : StringLess(x, y)
       IN  <<least>> \o SortStrings(S \ {least})

\* the less function given to sort.Slice: iVersion > jVersion
SliceLessMutant(a, b) ==
  Atoi(extractMinorRegex(a)[1]) < Atoi(extractMinorRegex(b)[1])
SliceLess(a, b) ==
  Atoi(extractMinorRegex(a)[1]) > Atoi(extractMinorRegex(b)[1])

\* one pass of the insertion sort: x moves left past every element it is less than
RECURSIVE InsertLeft(_, _)
InsertLeft(data, x) ==
  IF data = <<>> \/ ~SliceLess(x, data[Len(data)]) THEN Append(data, x)
  ELSE Append(InsertLeft(SubSeq(data, 1, Len(data) - 1), x), data[Len(data)])

RECURSIVE InsertionSort(_, _)
InsertionSort(data, i) ==
  IF i > Len(data) THEN data
  ELSE InsertionSort(InsertLeft(SubSeq(data, 1, i - 1), data[i])
                       \o SubSeq(data, i + 1, Len(data)), i + 1)

\* the orders of a sorted slice that differ in the order of equal elements only
RECURSIVE TieOrders(_)
TieOrders(data) ==
  IF data = <<>> THEN {<<>>}
  ELSE LET ties == {i \in 1..Len(data) :
                      ~SliceLess(data[1], data[i]) /\ ~SliceLess(data[i], data[1])}
           group == {data[i] : i \in ties}
           n == Cardinality(ties)
           rest == SubSeq(data, n + 1, Len(data))
       IN  {g \o t : g \in {q \in DistinctSeqs(group, n) : Len(q) = n},
                     t \in TieOrders(rest)}

\* sort.Slice sorts slices of at most this many elements by insertion
maxInsertion == 12

\* sort.Slice(streams, less): the slices it may leave.  The sort is not stable: up to
\* maxInsertion elements it is an insertion sort, which keeps equal elements in
\* order; above that, equal elements may end in any order.
SortSlice(data) ==
  IF Len(data) <= maxInsertion THEN {InsertionSort(data, 2)}
  ELSE TieOrders(InsertionSort(data, 2))

Line(kind, args) == [kind |-> kind, args |-> args]

\* the lines String prints for one stream
StreamLinesMutant(rep_, stream, healthy) ==
  LET r == rep_.streams[stream]
  IN  <<Line("header", <<rep_.releaseAPIUrl, stream>>)>>
        \o [i \in 1..Len(r.unhealthyMessages) |->
              Line("unhealthy", <<IF healthy THEN "*WARNING:* " ELSE "", r.unhealthyMessages[i]>>)]
        \o (IF healthy
            THEN [i \in 1..Len(r.healthyMessages) |->
                    Line("healthy", <<r.healthyMessages[i]>>)]
            ELSE <<>>)
        \o <<Line("blank", <<>>)>>
StreamLines(rep_, stream, healthy) ==
  LET r == rep_.streams[stream]
  IN  IF Len(r.unhealthyMessages) = 0 /\ ~healthy THEN <<>>
      ELSE <<Line("header", <<rep_.releaseAPIUrl, stream>>)>>
             \o [i \in 1..Len(r.unhealthyMessages) |->
                   Line("unhealthy", <<IF healthy THEN "*WARNING:* " ELSE "", r.unhealthyMessages[i]>>)]
             \o (IF healthy
                 THEN [i \in 1..Len(r.healthyMessages) |->
                         Line("healthy", <<r.healthyMessages[i]>>)]
                 ELSE <<>>)
             \o <<Line("blank", <<>>)>>

\* the loop of String over the sorted streams
RECURSIVE StreamsLines(_, _, _, _)
StreamsLines(rep_, streams, i, healthy) ==
  IF i > Len(streams) THEN <<>>
  ELSE StreamLines(rep_, streams[i], healthy) \o StreamsLines(rep_, streams, i + 1, healthy)

\* what String returns with the streams in the given order, as lines
RenderLines(rep_, streams, healthy) ==
  LET out == StreamsLines(rep_, streams, 1, healthy)
  IN  (IF ~healthy /\ Len(out) = 0
       THEN <<Line("none", <<"No unhealthy payload streams detected">>)>>
       ELSE out)
        \o <<Line("blank", <<>>),
             Line("ignored", <<"Ignored releases older than 4.%d.z and newer than 4.%d.z",
                               rep_.oldestMinor, rep_.newestMinor>>)>>

VARIABLES
  pc,                      \* the position of the program
  oldestMinor, newestMinor, arch,
  acceptedStalenessLimit, builtStalenessLimit, upgradeStalenessLimit,
  acceptedReleases, allReleases, stableGraph,
  fetched,                 \* the sources requested so far, in order
  err,                     \* the error generateReport returned, "" for none
  acceptedEmpty, acceptedStale,
  allEmpty, allStale,
  allVeryStale,
  todo,                    \* checkUpgrades: the streams the range loop has yet to visit
  release,                 \* checkUpgrades: the stream being scanned
  pi, fi,                  \* checkUpgrades: index of the payload, of the predecessor
  foundPatch, foundMinor,  \* checkUpgrades: Nil or <<[Version, Age]>>
  rep,                     \* the report
  o,                       \* the options value the bot's handler closes over
  mutex,                   \* the request that holds the mutex, 0 when it is free
  msgCache,                \* the event timestamps seen
  handlers,                \* each request's position and locals in the handler
  sent,                    \* the calls of sendMessage made so far
  includeHealthy,          \* the flag String is called with
  output                   \* what String returned, as lines

inputs == <<oldestMinor, newestMinor, arch,
            acceptedStalenessLimit, builtStalenessLimit, upgradeStalenessLimit>>
fetches == <<fetched, err, acceptedReleases, allReleases, stableGraph>>
stales == <<acceptedEmpty, acceptedStale, allEmpty, allStale, allVeryStale>>
cursor == <<todo, release, pi, fi, foundPatch, foundMinor>>

rendering == <<includeHealthy, output>>

bot == <<o, mutex, msgCache, handlers, sent>>

\* the variables of a report generation
reporting == <<pc, inputs, fetches, stales, cursor, rep, rendering>>

vars == <<reporting, bot>>

EmptyMap == [x \in {} |-> 0]

\* before checkUpgrades is called
NoScan ==
  /\ todo = {}
  /\ release = <<>>
  /\ pi = 0
  /\ fi = 0
  /\ foundPatch = Nil
  /\ foundMinor = Nil

\* before anything is fetched
NoFetches ==
  /\ fetched = <<>>
  /\ err = ""

\* before getEmptyAndStaleStreams is called
NoStales ==
  /\ acceptedEmpty = {}
  /\ acceptedStale = EmptyMap
  /\ allEmpty = {}
  /\ allStale = EmptyMap
  /\ allVeryStale = EmptyMap

NoRendering ==
  /\ includeHealthy = FALSE
  /\ output = <<>>

\* outside the bot: no handler runs
NoBot ==
  /\ o = <<>>
  /\ mutex = 0
  /\ msgCache = {}
  /\ handlers = <<>>
  /\ sent = {}

NoReport == [streams |-> EmptyMap, oldestMinor |-> 0, newestMinor |-> 0, releaseAPIUrl |-> ""]

(***************************************************************************)
(* The staleness evaluator on its own                                      *)
(***************************************************************************)

MaxPayloads == 2

StaleNames ==
  {StreamName(9, ci), StreamName(10, nightly), StreamName(10, okd)}

StalePayloads ==
  {Payload(Version(10, 3), 24), Payload(Version(10, 2), 72), Undated(Version(10, 1))}

InitStale ==
  /\ pc = "stale"
  /\ NoBot
  /\ oldestMinor \in {9, 10}
  /\ newestMinor \in {9, 10}
  /\ oldestMinor <= newestMinor
  /\ arch = "amd64"
  /\ acceptedStalenessLimit \in {24, 72}
  /\ builtStalenessLimit = 72
  /\ upgradeStalenessLimit = 72
  /\ acceptedReleases = EmptyMap
  /\ \E S \in SUBSET StaleNames :
       allReleases \in [S -> DistinctSeqs(StalePayloads, MaxPayloads)]
  /\ stableGraph = EmptyMap
  /\ NoFetches
  /\ NoStales
  /\ NoScan
  /\ rep = NoReport
  /\ NoRendering

\* allEmpty, allStale := getEmptyAndStaleStreams(allReleases, acceptedStalenessLimit, ...)
StaleAll(next) ==
  /\ pc = "stale"
  /\ UNCHANGED bot
  /\ LET r == getEmptyAndStaleStreams(allReleases, acceptedStalenessLimit,
                                      oldestMinor, newestMinor)
     IN  /\ allEmpty' = r.emptyStreams
         /\ allStale' = r.staleStreams
  /\ pc' = next
  /\ UNCHANGED <<inputs, fetches, acceptedEmpty, acceptedStale, allVeryStale,
                 cursor, rep, rendering>>

NextStale == StaleAll("done")

SpecStale == InitStale /\ [][NextStale]_vars

(***************************************************************************)
(* Claims about getEmptyAndStaleStreams, under SpecStale                   *)
(***************************************************************************)

\* the z-streams of a release map whose minor lies in [oldestMinor, newestMinor]
InRangeStreams(releases) ==
  {stream \in DOMAIN releases :
     /\ zReleaseRegex(stream) # NoMatch
     /\ Atoi(zReleaseRegex(stream)[1]) >= oldestMinor
     /\ Atoi(zReleaseRegex(stream)[1]) <= newestMinor}

\* the ages of the payloads of a list whose timestamp parses
ParsableAges(payloads) ==
  {Now - payloads[i].built : i \in {j \in 1..Len(payloads) : payloads[j].dated}}

\* C2: an in-range stream with payloads is absent from the stale map when one
\* parsable payload is younger than the threshold, and present in it when every
\* parsable payload has age >= threshold (age = threshold included).
C2_FreshIffNotStale ==
  pc = "done" =>
    \A stream \in InRangeStreams(allReleases) :
      Len(allReleases[stream]) > 0 =>
        LET ages == ParsableAges(allReleases[stream])
        IN  /\ (\E a \in ages : a < acceptedStalenessLimit) => stream \notin DOMAIN allStale
            /\ (\A a \in ages : a >= acceptedStalenessLimit) => stream \in DOMAIN allStale

\* C2's case: a stream whose youngest payload has exactly the threshold's age is stale,
\* and another stream with a younger payload is not.
C2_Witness ==
  /\ pc = "done"
  /\ \E stream \in InRangeStreams(allReleases) :
       /\ acceptedStalenessLimit \in ParsableAges(allReleases[stream])
       /\ stream \in DOMAIN allStale
  /\ \E stream \in InRangeStreams(allReleases) :
       /\ \E a \in ParsableAges(allReleases[stream]) : a < acceptedStalenessLimit
       /\ stream \notin DOMAIN allStale

\* C3: an in-range stream with no payloads is in the empty set and is no key of the
\* stale map, and the empty set and the stale map's keys are disjoint.
C3_EmptyNeverStale ==
  pc = "done" =>
    /\ \A stream \in InRangeStreams(allReleases) :
         Len(allReleases[stream]) = 0 =>
           stream \in allEmpty /\ stream \notin DOMAIN allStale
    /\ allEmpty \cap DOMAIN allStale = {}

\* C3's case: one in-range stream is empty while another is stale.
C3_Witness ==
  /\ pc = "done"
  /\ \E stream \in InRangeStreams(allReleases) :
       Len(allReleases[stream]) = 0 /\ stream \in allEmpty
  /\ DOMAIN allStale # {}

\* C9: the age recorded for a stale stream is now minus its latest parsable payload
\* timestamp, which is at least the threshold; with no parsable timestamp it is
\* now.Sub(zero time).
C9_StaleAgeIsNewest ==
  pc = "done" =>
    \A stream \in DOMAIN allStale :
      LET ages == ParsableAges(allReleases[stream])
      IN  IF ages = {} THEN allStale[stream] = Sub(Now, ZeroTime)
          ELSE /\ allStale[stream] \in ages
               /\ \A a \in ages : allStale[stream] <= a
               /\ allStale[stream] >= acceptedStalenessLimit

\* C9's case: a stale stream with two parsable payloads of different ages, and a
\* stale stream none of whose payloads has a parsable timestamp.
C9_Witness ==
  /\ pc = "done"
  /\ \E stream \in DOMAIN allStale : Cardinality(ParsableAges(allReleases[stream])) = 2
  /\ \E stream \in DOMAIN allStale :
       ParsableAges(allReleases[stream]) = {} /\ allStale[stream] = MaxDuration

(***************************************************************************)
(* checkUpgrades, one step per loop iteration                              *)
(***************************************************************************)

\* checkUpgrades(stableGraph, allReleases, upgradeStalenessLimit, oldestMinor,
\* newestMinor): the empty report, before the range loop
CheckUpgradesCall ==
  /\ pc = "checkUpgrades"
  /\ UNCHANGED bot
  /\ rep' = [streams |-> EmptyMap, oldestMinor |-> oldestMinor,
             newestMinor |-> newestMinor, releaseAPIUrl |-> ""]
  /\ todo' = DOMAIN allReleases
  /\ pc' = "cu_release"
  /\ UNCHANGED <<inputs, fetches, stales, release, pi, fi, foundPatch, foundMinor, rendering>>

\* for release, payloads := range releases: the map yields its keys in any order
CheckUpgradesRelease ==
  /\ pc = "cu_release"
  /\ UNCHANGED bot
  /\ \E r \in todo :
       /\ todo' = todo \ {r}
       /\ IF UpgradeInRange(r, oldestMinor, newestMinor)
          THEN /\ release' = r
               /\ foundMinor' = Nil
               /\ foundPatch' = Nil
               /\ rep' = [rep EXCEPT !.streams =
                            [x \in DOMAIN rep.streams \cup {r} |->
                               IF x = r
                               THEN [healthyMessages |-> <<>>, unhealthyMessages |-> <<>>]
                               ELSE rep.streams[x]]]
               /\ pi' = 1
               /\ fi' = 0
               /\ pc' = "cu_payload"
          ELSE UNCHANGED <<release, foundMinor, foundPatch, rep, pi, fi, pc>>
  /\ UNCHANGED <<inputs, fetches, stales, rendering>>

\* for _, payload := range payloads: the checks before the predecessor loop
CheckUpgradesPayload ==
  /\ pc = "cu_payload"
  /\ UNCHANGED bot
  /\ IF pi > Len(allReleases[release])
     THEN /\ pc' = "cu_messages"
          /\ UNCHANGED <<pi, fi>>
     ELSE LET payload == allReleases[release][pi]
              r == getPayloadTimestamp(payload)
              age == Sub(Now, r.ts)
          IN  IF \/ r.err
                 \/ UpgradeTooOld(age, upgradeStalenessLimit)
                 \/ extractMinorRegex(payload.version) = NoMatch
              THEN /\ pi' = pi + 1
                   /\ UNCHANGED <<fi, pc>>
              ELSE /\ fi' = 1
                   /\ pc' = "cu_from"
                   /\ UNCHANGED pi
  /\ UNCHANGED <<inputs, fetches, stales, todo, release, foundPatch, foundMinor, rep, rendering>>

\* for _, from := range graph[payload]
CheckUpgradesFrom ==
  /\ pc = "cu_from"
  /\ UNCHANGED bot
  /\ LET payload == allReleases[release][pi]
         age == Sub(Now, getPayloadTimestamp(payload).ts)
         toVersion == Atoi(extractMinorRegex(payload.version)[1])
         froms == Predecessors(stableGraph, payload)
     IN  IF fi > Len(froms)
         THEN /\ pi' = pi + 1
              /\ pc' = "cu_payload"
              /\ UNCHANGED <<fi, foundPatch, foundMinor>>
         ELSE LET from == froms[fi]
                  fromMatches == extractMinorRegex(from)
              IN  IF fromMatches = NoMatch
                  THEN /\ fi' = fi + 1
                       /\ UNCHANGED <<pi, pc, foundPatch, foundMinor>>
                  ELSE LET fromVersion == Atoi(fromMatches[1])
                           hit == <<[Version |-> from, Age |-> age]>>
                       IN  /\ foundPatch' = IF IsPatch(toVersion, fromVersion)
                                            THEN hit ELSE foundPatch
                           /\ foundMinor' = IF IsMinor(toVersion, fromVersion)
                                            THEN hit ELSE foundMinor
                           /\ IF foundMinor' # Nil /\ foundPatch' # Nil
                              THEN \* break: leaves the predecessor loop only
                                   /\ pi' = pi + 1
                                   /\ pc' = "cu_payload"
                                   /\ UNCHANGED fi
                              ELSE /\ fi' = fi + 1
                                   /\ UNCHANGED <<pi, pc>>
  /\ UNCHANGED <<inputs, fetches, stales, todo, release, rep, rendering>>

\* the messages appended after the payload loop
CheckUpgradesMessages ==
  /\ pc = "cu_messages"
  /\ UNCHANGED bot
  /\ rep' = [rep EXCEPT !.streams[release] = UpgradeMessages(foundPatch, foundMinor)]
  /\ pc' = "cu_release"
  /\ UNCHANGED <<inputs, fetches, stales, cursor, rendering>>

\* return rep: the locals of the call are gone
CheckUpgradesReturn(next) ==
  /\ pc = "cu_release"
  /\ UNCHANGED bot
  /\ todo = {}
  /\ release' = <<>>
  /\ pi' = 0
  /\ fi' = 0
  /\ foundPatch' = Nil
  /\ foundMinor' = Nil
  /\ pc' = next
  /\ UNCHANGED <<inputs, fetches, stales, todo, rep, rendering>>

(***************************************************************************)
(* The upgrade evaluator on its own                                        *)
(***************************************************************************)

MaxPredecessors == 2

Fresh1 == Payload(Version(10, 3), 24)
Fresh2 == Payload(Version(10, 4), 48)
\* as old as the default upgrade-staleness-limit
Boundary == Payload(Version(10, 5), 72)
Stale == Payload(Version(10, 2), 96)
NoDate == Undated(Version(10, 6))
\* a payload name in which extractMinorRegex finds nothing
NoVersion == Payload(<<"4", ".", "0", ".", "7">>, 24)

UpgradePayloads == {Fresh1, Fresh2, Boundary, Stale}

\* the predecessors: a patch level one, a minor level one, two that are neither,
\* and one without a minor version
UpgradeFroms ==
  {Version(10, 1), Version(9, 5), Version(8, 3), <<"3", ".", "1", "1", ".", "0">>}

InitUpgrades ==
  /\ pc = "checkUpgrades"
  /\ NoBot
  /\ oldestMinor = 9
  /\ newestMinor = 10
  /\ arch = "amd64"
  /\ acceptedStalenessLimit = 24
  /\ builtStalenessLimit = 72
  /\ upgradeStalenessLimit = 72
  /\ acceptedReleases = EmptyMap
  /\ \E payloads \in DistinctSeqs(UpgradePayloads, MaxPayloads) :
       allReleases = [stream \in {StreamName(10, nightly), StreamName(9, ci)} |->
                        IF stream = StreamName(10, nightly) THEN payloads
                        ELSE <<NoDate, NoVersion, Stale>>]
  /\ \E f1 \in DistinctSeqs(UpgradeFroms, MaxPredecessors),
        f2 \in DistinctSeqs(UpgradeFroms, MaxPredecessors - 1) :
       stableGraph = [payload \in UpgradePayloads \cup {NoDate, NoVersion} |->
                        IF payload = Fresh1 THEN f1
                        ELSE IF payload = Fresh2 THEN f2
                        ELSE <<Version(10, 1), Version(9, 5)>>]
  /\ NoFetches
  /\ NoStales
  /\ NoScan
  /\ rep = NoReport
  /\ NoRendering

NextUpgrades ==
  \/ CheckUpgradesCall
  \/ CheckUpgradesRelease
  \/ CheckUpgradesPayload
  \/ CheckUpgradesFrom
  \/ CheckUpgradesMessages
  \/ CheckUpgradesReturn("done")

SpecUpgrades == InitUpgrades /\ [][NextUpgrades]_vars

(***************************************************************************)
(* Claims about checkUpgrades, under SpecUpgrades                          *)
(***************************************************************************)

PatchText == "Has a recent valid patch level upgrade from %s %0.1f days ago"
MinorText == "Has a recent valid minor level upgrade from %s %0.1f days ago"

\* the minor version extractMinorRegex and Atoi give a text, as a set: empty when
\* the text has none
MinorOf(text) ==
  IF extractMinorRegex(text) = NoMatch THEN {} ELSE {Atoi(extractMinorRegex(text)[1])}

\* the payloads of a stream that checkUpgrades does not skip: the timestamp parses,
\* the age does not exceed the upgrade staleness limit, the name has a minor version
ScannedPayloads(stream) ==
  {payload \in {allReleases[stream][i] : i \in 1..Len(allReleases[stream])} :
     /\ payload.dated
     /\ ~(Now - payload.built > upgradeStalenessLimit)
     /\ MinorOf(payload.version) # {}}

\* the payload and the predecessor a step of the predecessor loop looks at
AtPredecessor ==
  /\ pc = "cu_from"
  /\ fi <= Len(Predecessors(stableGraph, allReleases[release][pi]))
CurrentTo == MinorOf(allReleases[release][pi].version)
CurrentFrom == MinorOf(Predecessors(stableGraph, allReleases[release][pi])[fi])

\* the texts of the messages of a list
Texts(messages) == {messages[i][1] : i \in 1..Len(messages)}

\* C5, a step: while a stream is scanned, foundPatch is set only at a predecessor
\* with F = T and foundMinor only at one with F = T - 1; a predecessor with another
\* or no minor version sets neither.
C5_Step ==
  pc \in {"cu_payload", "cu_from", "cu_messages"} =>
    /\ foundPatch' # foundPatch =>
         AtPredecessor /\ \E t \in CurrentTo, f \in CurrentFrom : f = t
    /\ foundMinor' # foundMinor =>
         AtPredecessor /\ \E t \in CurrentTo, f \in CurrentFrom : f = t - 1

\* C5, the result: a stream has the patch (minor) healthy message only if one of its
\* scanned payloads has a predecessor with F = T (F = T - 1).
C5_Result ==
  pc = "done" =>
    \A stream \in DOMAIN rep.streams :
      LET pairs == UNION {MinorOf(payload.version) \X
                            UNION {MinorOf(Predecessors(stableGraph, payload)[i]) :
                                     i \in 1..Len(Predecessors(stableGraph, payload))} :
                          payload \in ScannedPayloads(stream)}
      IN  /\ PatchText \in Texts(rep.streams[stream].healthyMessages) =>
               \E p \in pairs : p[2] = p[1]
          /\ MinorText \in Texts(rep.streams[stream].healthyMessages) =>
               \E p \in pairs : p[2] = p[1] - 1

\* C5: patch successes come from predecessors of the same minor, minor successes from
\* predecessors of the minor before, and no other predecessor sets either.
C5_PatchAndMinor == [][C5_Step]_vars /\ []C5_Result

\* C5's case: a scan that met a predecessor two minors back and one without a minor
\* version, and ended with the patch success alone.
C5_Witness ==
  /\ pc = "done"
  /\ allReleases[StreamName(10, nightly)] = <<Fresh1, Fresh2>>
  /\ stableGraph[Fresh1] = <<Version(8, 3), Version(10, 1)>>
  /\ stableGraph[Fresh2] = <<<<"3", ".", "1", "1", ".", "0">>>>
  /\ Texts(rep.streams[StreamName(10, nightly)].healthyMessages) = {PatchText}
  /\ rep.streams[StreamName(10, nightly)].unhealthyMessages = <<NoMinorMessage>>

\* C6: once both a patch and a minor success are recorded for a stream, nothing
\* scanned afterwards for that stream changes either of them.
C6_BothFoundIsFinal ==
  [][(pc \in {"cu_payload", "cu_from", "cu_messages"}
        /\ foundPatch # Nil /\ foundMinor # Nil)
       => (foundPatch' = foundPatch /\ foundMinor' = foundMinor)]_vars

\* C10: checkUpgrades gives every in-range stream exactly two messages, one about
\* patch and one about minor upgrades, each healthy iff that success was found; a
\* stream none of whose scanned payloads has a predecessor gets the two unhealthy
\* messages and no healthy one.
C10_TwoMessages ==
  /\ (pc = "cu_release" /\ release # <<>>) =>
       LET r == rep.streams[release]
       IN  /\ (foundPatch # Nil) <=> (PatchText \in Texts(r.healthyMessages))
           /\ (foundPatch = Nil) <=> (NoPatchMessage[1] \in Texts(r.unhealthyMessages))
           /\ (foundMinor # Nil) <=> (MinorText \in Texts(r.healthyMessages))
           /\ (foundMinor = Nil) <=> (NoMinorMessage[1] \in Texts(r.unhealthyMessages))
  /\ pc = "done" =>
       \A stream \in InRangeStreams(allReleases) :
         /\ stream \in DOMAIN rep.streams
         /\ LET r == rep.streams[stream]
                all == r.healthyMessages \o r.unhealthyMessages
            IN  /\ Len(all) = 2
                /\ Cardinality(Texts(all) \cap {PatchText, NoPatchMessage[1]}) = 1
                /\ Cardinality(Texts(all) \cap {MinorText, NoMinorMessage[1]}) = 1
                /\ (\A payload \in ScannedPayloads(stream) :
                      Predecessors(stableGraph, payload) = Nil)
                   => /\ r.unhealthyMessages = <<NoPatchMessage, NoMinorMessage>>
                      /\ r.healthyMessages = <<>>

\* C10's case: a stream whose scanned payloads have no predecessor in the graph, next
\* to a stream all of whose payloads are skipped.
C10_Witness ==
  /\ pc = "done"
  /\ allReleases[StreamName(10, nightly)] = <<Fresh1, Fresh2>>
  /\ stableGraph[Fresh1] = <<>>
  /\ stableGraph[Fresh2] = <<>>
  /\ rep.streams[StreamName(10, nightly)].unhealthyMessages = <<NoPatchMessage, NoMinorMessage>>
  /\ rep.streams[StreamName(10, nightly)].healthyMessages = <<>>
  /\ rep.streams[StreamName(9, ci)].healthyMessages = <<>>

(***************************************************************************)
(* report.String                                                           *)
(***************************************************************************)

\* rep.String(includeHealthy)
StringCall(next) ==
  /\ pc = "String"
  /\ UNCHANGED bot
  /\ \E streams \in SortSlice(SortStrings(DOMAIN rep.streams)) :
       output' = RenderLines(rep, streams, includeHealthy)
  /\ pc' = next
  /\ UNCHANGED <<inputs, fetches, stales, cursor, rep, includeHealthy>>

(***************************************************************************)
(* The renderer on its own                                                 *)
(***************************************************************************)

OldestRendered == 9
NewestRendered == 15
\* the minors whose streams get every combination of messages
RichestRendered == 10

RenderedNames(oldest, newest) ==
  {StreamName(minor, kind) : minor \in oldest..newest, kind \in {ci, nightly}}

\* what generateReport can leave a stream with
RenderedReports ==
  LET f == [Version |-> Version(10, 1), Age |-> 24]
  IN  {[healthyMessages |-> <<PatchMessage(f), MinorMessage(f)>>,
        unhealthyMessages |-> <<>>],
       [healthyMessages |-> <<PatchMessage(f)>>,
        unhealthyMessages |-> <<NoMinorMessage>>],
       [healthyMessages |-> <<>>,
        unhealthyMessages |-> <<NoPatchMessage, NoMinorMessage, <<"Has no built payloads">>>>]}

InitString ==
  /\ pc = "String"
  /\ NoBot
  /\ oldestMinor = OldestRendered
  /\ newestMinor = NewestRendered
  /\ arch = "amd64"
  /\ acceptedStalenessLimit = 24
  /\ builtStalenessLimit = 72
  /\ upgradeStalenessLimit = 72
  /\ acceptedReleases = EmptyMap
  /\ allReleases = EmptyMap
  /\ stableGraph = EmptyMap
  /\ NoFetches
  /\ NoStales
  /\ NoScan
  /\ \E streams \in
         UNION {[S -> RenderedReports] :
                  S \in SUBSET RenderedNames(OldestRendered, RichestRendered)}
         \cup UNION {[RenderedNames(OldestRendered, NewestRendered) \ D -> {r}] :
                       D \in {{}} \cup {{x} : x \in RenderedNames(OldestRendered, NewestRendered)},
                       r \in RenderedReports} :
       rep = [streams |-> streams, oldestMinor |-> OldestRendered,
              newestMinor |-> NewestRendered,
              releaseAPIUrl |-> "https://amd64.ocp.releases.ci.openshift.org"]
  /\ includeHealthy \in BOOLEAN
  /\ output = <<>>

NextString == StringCall("done")

SpecString == InitString /\ [][NextString]_vars

(***************************************************************************)
(* Claims about report.String, under SpecString                            *)
(***************************************************************************)

\* the streams of the header lines of the output, in order
RECURSIVE Headers(_)
Headers(lines) ==
  IF lines = <<>> THEN <<>>
  ELSE (IF lines[1].kind = "header" THEN <<lines[1].args[2]>> ELSE <<>>)
         \o Headers(Tail(lines))

\* the minor version in a stream name
StreamMinor(stream) == Atoi(extractMinorRegex(stream)[1])

\* C7: the headers come in descending order of minor version, streams of the same
\* minor in ascending string order.
C7_SortedHeaders ==
  pc = "done" =>
    LET h == Headers(output)
    IN  \A i, j \in 1..Len(h) :
          i < j =>
            \/ StreamMinor(h[i]) > StreamMinor(h[j])
            \/ StreamMinor(h[i]) = StreamMinor(h[j]) /\ StringLess(h[i], h[j])

\* the kinds of the lines of the output, in order
Kinds(lines) == [i \in 1..Len(lines) |-> lines[i].kind]

\* the number of lines of a kind
CountKind(lines, kind) == Cardinality({i \in 1..Len(lines) : lines[i].kind = kind})

\* the number of messages of a kind ("healthyMessages", "unhealthyMessages") that
\* the streams of S have in the report
RECURSIVE MessageCount(_, _)
MessageCount(S, field) ==
  IF S = {} THEN 0
  ELSE LET x == CHOOSE y \in S : TRUE
       IN  Len(rep.streams[x][field]) + MessageCount(S \ {x}, field)

\* the output has, from line p on, the stream's header, its unhealthy messages and,
\* if asked for, its healthy messages, closed by a blank line
PrintedAt(stream, p, healthy) ==
  LET u == rep.streams[stream].unhealthyMessages
      h == IF healthy THEN rep.streams[stream].healthyMessages ELSE <<>>
  IN  /\ p + Len(u) + Len(h) + 1 <= Len(output)
      /\ output[p].kind = "header"
      /\ output[p].args[2] = stream
      /\ \A k \in 1..Len(u) :
           output[p + k].kind = "unhealthy" /\ output[p + k].args[2] = u[k]
      /\ \A k \in 1..Len(h) :
           output[p + Len(u) + k].kind = "healthy" /\ output[p + Len(u) + k].args[1] = h[k]
      /\ output[p + Len(u) + Len(h) + 1].kind = "blank"

Unhealthy == {stream \in DOMAIN rep.streams : Len(rep.streams[stream].unhealthyMessages) > 0}

\* C8: without includeHealthy a stream is printed iff it has an unhealthy message, no
\* healthy message is printed, and "No unhealthy payload streams detected" is printed
\* iff no stream has an unhealthy message; with includeHealthy every stream is
\* printed, unhealthy messages before healthy ones, and that line is not printed; the
\* line about the ignored releases is always the last one.
C8_RenderedStreams ==
  pc = "done" =>
    LET printed == IF includeHealthy THEN DOMAIN rep.streams ELSE Unhealthy
    IN  /\ \A stream \in printed : \E p \in 1..Len(output) : PrintedAt(stream, p, includeHealthy)
        /\ CountKind(output, "header") = Cardinality(printed)
        /\ CountKind(output, "unhealthy") = MessageCount(printed, "unhealthyMessages")
        /\ CountKind(output, "healthy") = IF includeHealthy THEN MessageCount(printed, "healthyMessages") ELSE 0
        /\ CountKind(output, "none") = IF ~includeHealthy /\ Unhealthy = {} THEN 1 ELSE 0
        /\ output[Len(output)].kind = "ignored"
        /\ CountKind(output, "ignored") = 1

\* C8's case: without includeHealthy, a report with a stream that has unhealthy
\* messages and a stream that has none.
C8_Witness ==
  /\ pc = "done"
  /\ ~includeHealthy
  /\ Unhealthy # {}
  /\ Unhealthy # DOMAIN rep.streams
  /\ CountKind(output, "header") = Cardinality(Unhealthy)

(***************************************************************************)
(* generateReport and runReport                                            *)
(***************************************************************************)

\* releaseAPIUrls
releaseAPIUrls ==
  [a \in {"amd64", "arm64", "multi", "ppc64le", "s390x"} |->
     CASE a = "amd64" -> "https://amd64.ocp.releases.ci.openshift.org"
       [] a = "arm64" -> "https://arm64.ocp.releases.ci.openshift.org"
       [] a = "multi" -> "https://multi.ocp.releases.ci.openshift.org"
       [] a = "ppc64le" -> "https://ppc64le.ocp.releases.ci.openshift.org"
       [] a = "s390x" -> "https://s390x.ocp.releases.ci.openshift.org"]

\* the flag's value for "look the bound up"
Unset == -1

\* what getSupportedReleases may return: an error, or the oldest and newest
\* supported minor
SupportedReleases ==
  {[err |-> TRUE, oldest |-> 0, newest |-> 0],
   [err |-> FALSE, oldest |-> 9, newest |-> 9]}

\* the check of the resolved bounds
InvalidRange(oldest, newest) == oldest < 0 \/ newest < 0 \/ newest < oldest

\* generateReport, the block that resolves bounds that were not given
GenerateReportRange ==
  /\ pc = "generateReport"
  /\ UNCHANGED bot
  /\ IF oldestMinor = Unset \/ newestMinor = Unset
     THEN /\ fetched' = Append(fetched, "supported")
          /\ \E got \in SupportedReleases :
               IF got.err
               THEN /\ err' = "error fetching life-cycle data"
                    /\ pc' = "failed"
                    /\ UNCHANGED <<oldestMinor, newestMinor>>
               ELSE /\ oldestMinor' = IF oldestMinor = Unset THEN got.oldest ELSE oldestMinor
                    /\ newestMinor' = IF newestMinor = Unset THEN got.newest + 1 ELSE newestMinor
                    /\ IF InvalidRange(oldestMinor', newestMinor')
                       THEN err' = "invalid release range" /\ pc' = "failed"
                       ELSE err' = err /\ pc' = "arch"
     ELSE /\ pc' = "arch"
          /\ UNCHANGED <<oldestMinor, newestMinor, fetched, err>>
  /\ UNCHANGED <<arch, acceptedStalenessLimit, builtStalenessLimit, upgradeStalenessLimit,
                 acceptedReleases, allReleases, stableGraph, stales, cursor, rep, rendering>>

\* releaseAPIUrl, found := releaseAPIUrls[arch]
GenerateReportArch ==
  /\ pc = "arch"
  /\ UNCHANGED bot
  /\ IF arch \in DOMAIN releaseAPIUrls
     THEN pc' = "accepted" /\ err' = err
     ELSE pc' = "failed" /\ err' = "unknown architecture"
  /\ UNCHANGED <<inputs, fetched, acceptedReleases, allReleases, stableGraph,
                 stales, cursor, rep, rendering>>

\* the payloads of the fetched release maps: one built 12 and one built 96 hours ago
FetchedPayloads == {Payload(Version(10, 3), 12), Payload(Version(10, 2), 96)}

\* the payload lists of the fetched release maps
FetchedLists == {<<>>} \cup {<<payload>> : payload \in FetchedPayloads}

\* what the release controller may answer for the accepted and for all payloads
AcceptedReleaseMaps ==
  UNION {[S -> FetchedLists] : S \in SUBSET {StreamName(10, nightly), StreamName(9, ci)}}
AllReleaseMaps ==
  UNION {[S -> FetchedLists] :
           S \in SUBSET {StreamName(10, nightly), StreamName(9, ci), StreamName(10, okd)}}

\* what getUpgradeGraph may return
UpgradeGraphs ==
  {[payload \in FetchedPayloads |-> <<Version(10, 1), Version(9, 5)>>]}

\* acceptedReleases, err := getReleaseStream(releaseAPIUrl + acceptedReleasePath)
FetchAcceptedMutant ==
  /\ pc = "accepted"
  /\ UNCHANGED bot
  /\ fetched' = Append(fetched, "accepted")
  /\ \/ /\ err' = "error fetching releases"
        /\ pc' = "all"
        /\ UNCHANGED acceptedReleases
     \/ /\ acceptedReleases' \in AcceptedReleaseMaps
        /\ pc' = "all"
        /\ UNCHANGED err
  /\ UNCHANGED <<inputs, allReleases, stableGraph, stales, cursor, rep, rendering>>
FetchAccepted ==
  /\ pc = "accepted"
  /\ UNCHANGED bot
  /\ fetched' = Append(fetched, "accepted")
  /\ \/ /\ err' = "error fetching releases"
        /\ pc' = "failed"
        /\ UNCHANGED acceptedReleases
     \/ /\ acceptedReleases' \in AcceptedReleaseMaps
        /\ pc' = "all"
        /\ UNCHANGED err
  /\ UNCHANGED <<inputs, allReleases, stableGraph, stales, cursor, rep, rendering>>

\* allReleases, err := getReleaseStream(releaseAPIUrl + allReleasePath)
FetchAll ==
  /\ pc = "all"
  /\ UNCHANGED bot
  /\ fetched' = Append(fetched, "all")
  /\ \/ /\ err' = "error fetching releases"
        /\ pc' = "failed"
        /\ UNCHANGED allReleases
     \/ /\ allReleases' \in AllReleaseMaps
        /\ pc' = "graph"
        /\ UNCHANGED err
  /\ UNCHANGED <<inputs, acceptedReleases, stableGraph, stales, cursor, rep, rendering>>

\* stableGraph, err := getUpgradeGraph(releaseAPIUrl, "stable")
FetchGraph ==
  /\ pc = "graph"
  /\ UNCHANGED bot
  /\ fetched' = Append(fetched, "graph")
  /\ \/ /\ err' = "error fetching upgrade graph"
        /\ pc' = "failed"
        /\ UNCHANGED stableGraph
     \/ /\ stableGraph' \in UpgradeGraphs
        /\ pc' = "checkUpgrades"
        /\ UNCHANGED err
  /\ UNCHANGED <<inputs, acceptedReleases, allReleases, stales, cursor, rep, rendering>>

\* report.releaseAPIUrl = releaseAPIUrl, and
\* acceptedEmpty, acceptedStale := getEmptyAndStaleStreams(acceptedReleases, ...)
StaleAccepted ==
  /\ pc = "url"
  /\ UNCHANGED bot
  /\ rep' = [rep EXCEPT !.releaseAPIUrl = releaseAPIUrls[arch]]
  /\ LET r == getEmptyAndStaleStreams(acceptedReleases, acceptedStalenessLimit,
                                      oldestMinor, newestMinor)
     IN  /\ acceptedEmpty' = r.emptyStreams
         /\ acceptedStale' = r.staleStreams
  /\ pc' = "stale"
  /\ UNCHANGED <<inputs, fetches, allEmpty, allStale, allVeryStale, cursor, rendering>>

NoBuiltButRecent ==
  <<"Has no accepted payloads, but the stream contains recently built payloads">>
NoAcceptedButBuilt ==
  <<"Has no accepted payloads, but the stream contains built payloads">>
NoBuilt == <<"Has no built payloads">>
AcceptedStaleMessage(limit, age) ==
  <<"Most recently accepted payload > %.1f days, last accepted was %.1f days ago",
    Days(limit), Days(age)>>
VeryStaleMessage(age) == <<"Most recently built payload was %.1f days ago", Days(age)>>

\* the unhealthy messages the three loops after the evaluations append to a stream
MergedMessages(stream) ==
  (IF stream \in acceptedEmpty
   THEN IF stream \notin DOMAIN allStale THEN <<NoBuiltButRecent>>
        ELSE IF stream \notin allEmpty THEN <<NoAcceptedButBuilt>>
        ELSE <<>>
   ELSE <<>>)
  \o (IF stream \in DOMAIN acceptedStale
      THEN <<AcceptedStaleMessage(acceptedStalenessLimit, acceptedStale[stream])>>
      ELSE <<>>)
  \o (IF stream \in allEmpty THEN <<NoBuilt>> ELSE <<>>)

\* the loops over acceptedEmpty, acceptedStale and allEmpty: report.streams[stream]
\* of a stream that checkUpgrades gave no entry is nil, and appending to its messages
\* panics
Merge ==
  /\ pc = "merge"
  /\ UNCHANGED bot
  /\ IF (acceptedEmpty \cup DOMAIN acceptedStale \cup allEmpty) \subseteq DOMAIN rep.streams
     THEN /\ rep' = [rep EXCEPT !.streams =
                       [stream \in DOMAIN rep.streams |->
                          [rep.streams[stream] EXCEPT !.unhealthyMessages =
                             @ \o MergedMessages(stream)]]]
          /\ pc' = "verystale"
     ELSE /\ pc' = "panic"
          /\ UNCHANGED rep
  /\ UNCHANGED <<inputs, fetches, stales, cursor, rendering>>

\* _, allVeryStale := getEmptyAndStaleStreams(allReleases, builtStalenessLimit, ...),
\* its loop, and return report, nil
VeryStale ==
  /\ pc = "verystale"
  /\ UNCHANGED bot
  /\ LET very == getEmptyAndStaleStreams(allReleases, builtStalenessLimit,
                                         oldestMinor, newestMinor).staleStreams
     IN  /\ allVeryStale' = very
         /\ IF DOMAIN very \subseteq DOMAIN rep.streams
            THEN /\ rep' = [rep EXCEPT !.streams =
                              [stream \in DOMAIN rep.streams |->
                                 IF stream \in DOMAIN very
                                 THEN [rep.streams[stream] EXCEPT !.unhealthyMessages =
                                         Append(@, VeryStaleMessage(very[stream]))]
                                 ELSE rep.streams[stream]]]
                 /\ pc' = "done"
            ELSE /\ pc' = "panic"
                 /\ UNCHANGED rep
  /\ UNCHANGED <<inputs, fetches, acceptedEmpty, acceptedStale, allEmpty, allStale,
                 cursor, rendering>>

Init ==
  /\ pc = "generateReport"
  /\ NoBot
  /\ oldestMinor \in {Unset, 10, 11}
  /\ newestMinor \in {Unset, 9}
  /\ arch \in {"amd64", "x86"}
  /\ acceptedStalenessLimit = 24
  /\ builtStalenessLimit = 72
  /\ upgradeStalenessLimit = 72
  /\ acceptedReleases = EmptyMap
  /\ allReleases = EmptyMap
  /\ stableGraph = EmptyMap
  /\ NoFetches
  /\ NoStales
  /\ NoScan
  /\ rep = NoReport
  /\ includeHealthy = FALSE
  /\ output = <<>>

Next ==
  \/ GenerateReportRange
  \/ GenerateReportArch
  \/ FetchAccepted
  \/ FetchAll
  \/ FetchGraph
  \/ CheckUpgradesCall
  \/ CheckUpgradesRelease
  \/ CheckUpgradesPayload
  \/ CheckUpgradesFrom
  \/ CheckUpgradesMessages
  \/ CheckUpgradesReturn("url")
  \/ StaleAccepted
  \/ StaleAll("merge")
  \/ Merge
  \/ VeryStale

Spec == Init /\ [][Next]_vars

(***************************************************************************)
(* Claims about generateReport                                             *)
(***************************************************************************)

\* the sources requested so far, as a set
Requested == {fetched[i] : i \in 1..Len(fetched)}

\* both bounds were given on the command line: nothing was looked up
BothExplicit ==
  /\ oldestMinor # Unset
  /\ newestMinor # Unset
  /\ "supported" \notin Requested

\* C1: when generateReport is called with both bounds given and oldestMinor >
\* newestMinor, it requests no source at all and returns the invalid-range error.
C1_InvertedRangeRejected ==
  (BothExplicit /\ oldestMinor > newestMinor) =>
    /\ fetched = <<>>
    /\ pc # "generateReport" => (pc = "failed" /\ err = "invalid release range")

\* C4: a stream that is no z-stream, or whose minor lies outside
\* [oldestMinor, newestMinor], is in no empty set and no stale map of
\* getEmptyAndStaleStreams and is no key of the report of checkUpgrades; once
\* checkUpgrades has returned, the keys of report.streams are exactly the z-streams of
\* allReleases within the bounds.
C4_OnlyInRangeStreams ==
  /\ (acceptedEmpty \cup DOMAIN acceptedStale) \subseteq InRangeStreams(acceptedReleases)
  /\ (allEmpty \cup DOMAIN allStale \cup DOMAIN allVeryStale)
       \subseteq InRangeStreams(allReleases)
  /\ DOMAIN rep.streams \subseteq InRangeStreams(allReleases)
  /\ pc \in {"url", "stale", "merge", "verystale", "done", "panic"} =>
       DOMAIN rep.streams = InRangeStreams(allReleases)

\* C4's case: a finished report over the bounds [9, 9], from maps that hold a stream
\* above the bounds and a stream that is no z-stream, both with no payloads, next to
\* an in-range stream that every evaluator reports.
C4_Witness ==
  /\ pc = "done"
  /\ oldestMinor = 9
  /\ newestMinor = 9
  /\ DOMAIN allReleases =
       {StreamName(10, nightly), StreamName(9, ci), StreamName(10, okd)}
  /\ allReleases[StreamName(10, nightly)] = <<>>
  /\ allReleases[StreamName(10, okd)] = <<>>
  /\ DOMAIN acceptedReleases = {StreamName(10, nightly), StreamName(9, ci)}
  /\ acceptedReleases[StreamName(10, nightly)] = <<>>
  /\ DOMAIN rep.streams = {StreamName(9, ci)}
  /\ acceptedEmpty = {StreamName(9, ci)}
  /\ DOMAIN allStale = {StreamName(9, ci)}
  /\ DOMAIN allVeryStale = {StreamName(9, ci)}

\* the order in which generateReport requests its sources
FetchOrder == <<"accepted", "all", "graph">>

\* C11, the states: the sources are requested at most once each, in the order
\* supported-range (only when a bound was not given), accepted, all, graph; an error
\* ends the call at once, so after a failed fetch nothing later was requested, no
\* evaluation ran and there is no report; the evaluations start only after all three
\* maps were fetched.
C11_FetchOnce ==
  /\ \E n \in 0..Len(FetchOrder) :
       \/ fetched = SubSeq(FetchOrder, 1, n)
       \/ fetched = <<"supported">> \o SubSeq(FetchOrder, 1, n)
  /\ err # "" <=> pc = "failed"
  /\ pc = "failed" =>
       /\ rep = NoReport
       /\ NoStales
       /\ NoScan
       /\ stableGraph = EmptyMap
       /\ ("all" \notin Requested \/ fetched[Len(fetched)] = "all")
            => allReleases = EmptyMap
       /\ ("accepted" \notin Requested \/ fetched[Len(fetched)] = "accepted")
            => acceptedReleases = EmptyMap
  /\ pc \notin {"generateReport", "arch", "accepted", "all", "graph", "failed"} =>
       SubSeq(fetched, Len(fetched) - 2, Len(fetched)) = FetchOrder

\* C11: a failed fetch is returned as the error with no report, nothing is fetched or
\* evaluated after it and nothing is retried; each source is requested at most once,
\* in the order supported-range, accepted, all, graph.
C11_FetchFailureAborts == []C11_FetchOnce /\ [][pc # "failed"]_vars

\* C11's case: the supported range was looked up, the accepted map arrived and the
\* fetch of the all map failed.
C11_Witness ==
  /\ pc = "failed"
  /\ fetched = <<"supported", "accepted", "all">>
  /\ err = "error fetching releases"
  /\ acceptedReleases # EmptyMap

\* C12: while a stream is scanned, a patch success that is recorded is never replaced,
\* and a minor success that is recorded is never replaced: the first matching payload
\* and predecessor in iteration order stay.
C12_FirstFoundWins ==
  [][(pc \in {"cu_payload", "cu_from", "cu_messages"}) =>
       ((foundPatch # Nil => foundPatch' = foundPatch)
          /\ (foundMinor # Nil => foundMinor' = foundMinor))]_vars

\* the payload the payload loop of checkUpgrades is at, and its age
AtPayload == pc = "cu_payload" /\ pi <= Len(allReleases[release])
CurrentPayload == allReleases[release][pi]
CurrentAge == Now - CurrentPayload.built

\* the ages of the successes recorded so far
FoundAges ==
  {found[1].Age : found \in {f \in {foundPatch, foundMinor} : f # Nil}}

\* C13 as stated: only a payload whose age is strictly less than the staleness
\* threshold reaches the predecessor loop and yields a success; a payload exactly as
\* old as the threshold is skipped.
C13_StrictlyYounger ==
  /\ pc = "cu_from" => CurrentAge < upgradeStalenessLimit
  /\ \A age \in FoundAges : age < upgradeStalenessLimit

\* C13, the payload test: a payload whose timestamp parses and whose name has a minor
\* version goes on to the predecessor loop iff its age is at most the threshold.
C13_Step ==
  (AtPayload /\ CurrentPayload.dated /\ MinorOf(CurrentPayload.version) # {}) =>
    ((pc' = "cu_from") <=> (CurrentAge <= upgradeStalenessLimit))

\* C13, the successes: every recorded success comes from a payload at most as old as
\* the threshold.
C13_Ages ==
  /\ pc = "cu_from" => CurrentPayload.dated /\ CurrentAge <= upgradeStalenessLimit
  /\ \A age \in FoundAges : age <= upgradeStalenessLimit

\* C13, amended: checkUpgrades skips a payload only when its age exceeds the
\* threshold, so a payload exactly as old as the threshold is scanned and can yield a
\* success; this differs from the staleness evaluation, where such a payload is not
\* fresh.
C13_NotOlderThanLimit == [][C13_Step]_vars /\ []C13_Ages

\* C13's case: a success recorded from a payload exactly as old as the threshold.
C13_Witness ==
  /\ pc = "cu_messages"
  /\ upgradeStalenessLimit \in FoundAges
  /\ ~StaleIsFresh(upgradeStalenessLimit, upgradeStalenessLimit)

\* the unhealthy messages of a stream of the report, as a set
UnhealthyOf(stream) ==
  {rep.streams[stream].unhealthyMessages[i] :
     i \in 1..Len(rep.streams[stream].unhealthyMessages)}

\* C14: after the merge, a stream that is empty under the accepted evaluation has the
\* "recently built payloads" message iff it is neither empty nor stale under the
\* all-payloads evaluation, the "built payloads" message iff it is stale and not empty
\* there, and neither of the two when it is empty there, where it has "Has no built
\* payloads".
C14_AcceptedEmptyMessages ==
  pc \in {"verystale", "done"} =>
    \A stream \in acceptedEmpty :
      /\ NoBuiltButRecent \in UnhealthyOf(stream)
           <=> (stream \notin allEmpty /\ stream \notin DOMAIN allStale)
      /\ NoAcceptedButBuilt \in UnhealthyOf(stream)
           <=> (stream \notin allEmpty /\ stream \in DOMAIN allStale)
      /\ stream \in allEmpty =>
           /\ NoBuiltButRecent \notin UnhealthyOf(stream)
           /\ NoAcceptedButBuilt \notin UnhealthyOf(stream)
           /\ NoBuilt \in UnhealthyOf(stream)

\* C17: in the merge, every stream that the accepted evaluation or an all-payloads
\* evaluation names has an entry in report.streams, so no append goes through a
\* missing entry, whatever the accepted and the all map are.
C17_NamedStreamsHaveEntries ==
  /\ pc # "panic"
  /\ pc \in {"merge", "verystale", "done"} =>
       (acceptedEmpty \cup DOMAIN acceptedStale \cup allEmpty \cup DOMAIN allVeryStale)
         \subseteq DOMAIN rep.streams

(***************************************************************************)
(* The bot: createHandler, one step per statement that touches shared state *)
(***************************************************************************)

MaxRequests == 2

\* the requests the server handles, each in its own goroutine
Requests == 1..MaxRequests

\* the options the bot was started with
ConfiguredOptions ==
  {[oldestMinor |-> Unset, newestMinor |-> Unset, arch |-> "amd64",
    includeHealthy |-> FALSE, acceptedStalenessLimit |-> 24,
    builtStalenessLimit |-> 72, upgradeStalenessLimit |-> 72],
   [oldestMinor |-> 9, newestMinor |-> 10, arch |-> "multi",
    includeHealthy |-> TRUE, acceptedStalenessLimit |-> 24,
    builtStalenessLimit |-> 72, upgradeStalenessLimit |-> 72]}

\* Event.TS of the events
Timestamps == {"1700000000.000100", "1700000000.000200"}

\* Event.Text, as the words strings.Split(text, " ") gives; a word key=value is the
\* pair strings.Split(arg, "=") gives
EventTexts ==
  {<<<<"help">>>>,
   <<<<"report">>>>,
   <<<<"report">>, <<"min", Itoa(10)>>, <<"healthy">>>>,
   <<<<"report">>, <<"max", Itoa(9)>>, <<"arch", "arm64">>, <<"tag">>>>,
   <<<<"report">>, <<"min", ci>>>>,
   <<<<"hello">>>>}

\* strings.Contains(req.Event.Text, word), for the words of the texts above
Contains(text, word) == \E i \in 1..Len(text) : text[i] = <<word>>

\* strconv.Atoi fails on a text that is not a run of digits
AtoiFails(v) == Len(v) = 0 \/ \E i \in 1..Len(v) : ~IsDigit(v[i])

\* the loop over the arguments of a report request, from argument i on
RECURSIVE ParseArgs(_, _, _, _)
ParseArgs(text, i, reportOptions, tagPatchManager) ==
  IF i > Len(text)
  THEN [err |-> FALSE, reportOptions |-> reportOptions, tag |-> tagPatchManager]
  ELSE LET arg == text[i]
           tag == tagPatchManager \/ arg = <<"tag">>
           healthy == IF arg = <<"healthy">>
                      THEN [reportOptions EXCEPT !.includeHealthy = TRUE]
                      ELSE reportOptions
       IN  IF Len(arg) = 2
           THEN CASE arg[1] = "min" ->
                       IF AtoiFails(arg[2])
                       THEN [err |-> TRUE, reportOptions |-> healthy, tag |-> tag]
                       ELSE ParseArgs(text, i + 1,
                                      [healthy EXCEPT !.oldestMinor = Atoi(arg[2])], tag)
                  [] arg[1] = "max" ->
                       IF AtoiFails(arg[2])
                       THEN [err |-> TRUE, reportOptions |-> healthy, tag |-> tag]
                       ELSE ParseArgs(text, i + 1,
                                      [healthy EXCEPT !.newestMinor = Atoi(arg[2])], tag)
                  [] arg[1] = "arch" ->
                       ParseArgs(text, i + 1, [healthy EXCEPT !.arch = arg[2]], tag)
                  [] OTHER -> ParseArgs(text, i + 1, healthy, tag)
           ELSE ParseArgs(text, i + 1, healthy, tag)

\* reportOptions := *o; reportOptions.includeHealthy = false
CopyOptions(shared) == [shared EXCEPT !.includeHealthy = FALSE]

\* what *o is after the handler wrote to reportOptions: the handler has a copy
OptionsAfterCopyMutant(shared, reportOptions) == reportOptions
OptionsAfterCopy(shared, reportOptions) == shared

\* mutex.Lock() returns when no one holds the mutex
MutexFreeMutant(holder) == TRUE
MutexFree(holder) == holder = 0

\* a request that has not arrived
NoRequest ==
  [pc |-> "idle", kind |-> "", ts |-> "", text |-> <<>>, found |-> FALSE,
   call |-> Nil, healthy |-> FALSE, msg |-> FALSE, status |-> 0]

\* the handler up to the test of req.Type: a body that cannot be read or decoded is
\* answered 500, a url_verification 200, any other type but event_callback nothing
Receive(h) ==
  /\ handlers[h].pc = "idle"
  /\ \/ handlers' = [handlers EXCEPT ![h].pc = "done", ![h].kind = "undecodable",
                                     ![h].status = 500]
     \/ handlers' = [handlers EXCEPT ![h].pc = "done", ![h].kind = "url_verification",
                                     ![h].status = 200]
     \/ handlers' = [handlers EXCEPT ![h].pc = "done", ![h].kind = "app_rate_limited"]
     \/ \E ts \in Timestamps, text \in EventTexts :
          handlers' = [handlers EXCEPT ![h].pc = "lock", ![h].kind = "event_callback",
                                       ![h].ts = ts, ![h].text = text]
  /\ UNCHANGED <<reporting, o, mutex, msgCache, sent>>

\* mutex.Lock()
Lock(h) ==
  /\ handlers[h].pc = "lock"
  /\ MutexFree(mutex)
  /\ mutex' = h
  /\ handlers' = [handlers EXCEPT ![h].pc = "check"]
  /\ UNCHANGED <<reporting, o, msgCache, sent>>

\* if _, found := msgCache[req.Event.TS]; found { w.WriteHeader(http.StatusOK) ...
Check(h) ==
  /\ handlers[h].pc = "check"
  /\ IF handlers[h].ts \in msgCache
     THEN handlers' = [handlers EXCEPT ![h].pc = "unlock", ![h].found = TRUE,
                                       ![h].status = 200]
     ELSE handlers' = [handlers EXCEPT ![h].pc = "insert"]
  /\ UNCHANGED <<reporting, o, mutex, msgCache, sent>>

\* msgCache[req.Event.TS] = struct{}{}
Insert(h) ==
  /\ handlers[h].pc = "insert"
  /\ msgCache' = msgCache \cup {handlers[h].ts}
  /\ handlers' = [handlers EXCEPT ![h].pc = "unlock"]
  /\ UNCHANGED <<reporting, o, mutex, sent>>

\* mutex.Unlock(), and return for a duplicate
Unlock(h) ==
  /\ handlers[h].pc = "unlock"
  /\ mutex' = 0
  /\ handlers' = [handlers EXCEPT ![h].pc = IF handlers[h].found THEN "done"
                                            ELSE "dispatch"]
  /\ UNCHANGED <<reporting, o, msgCache, sent>>

\* a call of sendMessage by request h
Post(h, thread, kind) == [request |-> h, thread |-> thread, kind |-> kind]

\* the arguments generateReport is called with
CallOf(reportOptions) ==
  <<[acceptedStalenessLimit |-> reportOptions.acceptedStalenessLimit,
     builtStalenessLimit |-> reportOptions.builtStalenessLimit,
     upgradeStalenessLimit |-> reportOptions.upgradeStalenessLimit,
     oldestMinor |-> reportOptions.oldestMinor,
     newestMinor |-> reportOptions.newestMinor,
     arch |-> reportOptions.arch]>>

\* the switch on the text: the help text, a report with its arguments (generateReport
\* returns a report or an error), or the apology; a min or max that is no number is
\* posted as an error and answered 500
Dispatch(h) ==
  /\ handlers[h].pc = "dispatch"
  /\ LET text == handlers[h].text
         parsed == ParseArgs(text, 1, CopyOptions(o), FALSE)
     IN  IF Contains(text, "help") \/ ~Contains(text, "report")
         THEN /\ handlers' = [handlers EXCEPT ![h].pc = "send"]
              /\ UNCHANGED <<o, sent>>
         ELSE /\ o' = OptionsAfterCopy(o, parsed.reportOptions)
              /\ IF parsed.err
                 THEN /\ sent' = sent \cup {Post(h, handlers[h].ts, "error")}
                      /\ handlers' = [handlers EXCEPT ![h].pc = "done",
                                                       ![h].status = 500]
                 ELSE /\ \E ok \in BOOLEAN :
                           handlers' =
                             [handlers EXCEPT
                                ![h].pc = "send",
                                ![h].call = CallOf(parsed.reportOptions),
                                ![h].healthy = parsed.reportOptions.includeHealthy,
                                ![h].msg = ok \/ parsed.tag]
                      /\ UNCHANGED sent
  /\ UNCHANGED <<reporting, mutex, msgCache>>

\* ts, err := sendMessage(subject, req.Event.Channel, thread)
Send(h) ==
  /\ handlers[h].pc = "send"
  /\ sent' = sent \cup {Post(h, handlers[h].ts, "subject")}
  /\ \/ handlers' = [handlers EXCEPT ![h].pc = "done", ![h].status = 500]
     \/ handlers' = [handlers EXCEPT ![h].pc = IF handlers[h].msg THEN "thread"
                                               ELSE "done"]
  /\ UNCHANGED <<reporting, o, mutex, msgCache>>

\* _, err = sendMessage(msg, req.Event.Channel, ts)
Thread(h) ==
  /\ handlers[h].pc = "thread"
  /\ sent' = sent \cup {Post(h, "subject", "msg")}
  /\ \E status \in {200, 500} :
       handlers' = [handlers EXCEPT ![h].pc = "done", ![h].status = status]
  /\ UNCHANGED <<reporting, o, mutex, msgCache>>

InitBot ==
  /\ pc = "serve"
  /\ oldestMinor = Unset
  /\ newestMinor = Unset
  /\ arch = "amd64"
  /\ acceptedStalenessLimit = 24
  /\ builtStalenessLimit = 72
  /\ upgradeStalenessLimit = 72
  /\ acceptedReleases = EmptyMap
  /\ allReleases = EmptyMap
  /\ stableGraph = EmptyMap
  /\ NoFetches
  /\ NoStales
  /\ NoScan
  /\ rep = NoReport
  /\ NoRendering
  /\ o \in ConfiguredOptions
  /\ mutex = 0
  /\ msgCache = {}
  /\ handlers = [h \in Requests |-> NoRequest]
  /\ sent = {}

NextBot ==
  \E h \in Requests :
    \/ Receive(h)
    \/ Lock(h)
    \/ Check(h)
    \/ Insert(h)
    \/ Unlock(h)
    \/ Dispatch(h)
    \/ Send(h)
    \/ Thread(h)

SpecBot == InitBot /\ [][NextBot]_vars

(***************************************************************************)
(* Claims about the bot                                                    *)
(***************************************************************************)

\* the request is an event that went past the test of msgCache
Passed(h) ==
  /\ handlers[h].kind = "event_callback"
  /\ ~handlers[h].found
  /\ handlers[h].pc \in {"dispatch", "send", "thread", "done"}

\* the request is between mutex.Lock() and mutex.Unlock()
InCriticalSection(h) == handlers[h].pc \in {"check", "insert", "unlock"}

\* the calls of sendMessage by request h
PostsOf(h) == {post \in sent : post.request = h}

\* C15: whatever the interleaving, at most one request per event timestamp goes past
\* the test of msgCache and generates and sends; every other request with that
\* timestamp is answered 200 and sends nothing; the test and the insert happen with
\* the mutex held by that request alone, and no request keeps the mutex after them.
C15_OneRequestPerTimestamp ==
  /\ \A h1, h2 \in Requests :
       (Passed(h1) /\ Passed(h2) /\ handlers[h1].ts = handlers[h2].ts) => h1 = h2
  /\ \A h \in Requests :
       /\ handlers[h].found =>
            /\ handlers[h].status = 200
            /\ handlers[h].call = Nil
            /\ PostsOf(h) = {}
            /\ \E other \in Requests \ {h} : handlers[other].ts = handlers[h].ts
       /\ InCriticalSection(h) <=> mutex = h
       /\ PostsOf(h) # {} => Passed(h)
  /\ msgCache = {handlers[h].ts : h \in {r \in Requests :
                   Passed(r) \/ (handlers[r].pc = "unlock" /\ ~handlers[r].found)}}

\* C15's case: two requests with one timestamp are both finished; one was answered
\* 200 as a duplicate, the other generated a report and posted it.
C15_Witness ==
  \E h1, h2 \in Requests :
    /\ handlers[h1].pc = "done"
    /\ handlers[h2].pc = "done"
    /\ handlers[h1].ts = handlers[h2].ts
    /\ handlers[h1].found
    /\ Passed(h2)
    /\ handlers[h2].call # Nil
    /\ Cardinality(PostsOf(h2)) = 2
    /\ mutex = 0

\* the text of a report request carries none of min=, max=, arch= and healthy
NoOverrides(text) ==
  \A i \in 1..Len(text) :
    /\ text[i] # <<"healthy">>
    /\ Len(text[i]) = 2 => text[i][1] \notin {"min", "max", "arch"}

\* C16, the calls: a report request without overrides calls generateReport with the
\* configured limits, bounds and architecture and renders without the healthy streams.
C16_PlainCalls ==
  \A h \in Requests :
    (handlers[h].call # Nil /\ NoOverrides(handlers[h].text)) =>
      /\ handlers[h].call[1].oldestMinor = o.oldestMinor
      /\ handlers[h].call[1].newestMinor = o.newestMinor
      /\ handlers[h].call[1].arch = o.arch
      /\ handlers[h].call[1].acceptedStalenessLimit = o.acceptedStalenessLimit
      /\ handlers[h].call[1].builtStalenessLimit = o.builtStalenessLimit
      /\ handlers[h].call[1].upgradeStalenessLimit = o.upgradeStalenessLimit
      /\ ~handlers[h].healthy

\* C16: no request changes the shared options, whatever overrides it carries, so a
\* request without overrides, later or concurrent, runs generateReport with the
\* configured bounds and architecture and with includeHealthy false.
C16_OverridesArePrivate == [][o' = o]_vars /\ []C16_PlainCalls

\* C16's case: a request with min=10 and healthy and a plain request have both called
\* generateReport, under options configured with other bounds and include-healthy.
C16_Witness ==
  \E h1, h2 \in Requests :
    /\ handlers[h1].call # Nil
    /\ handlers[h1].call[1].oldestMinor = 10
    /\ handlers[h1].healthy
    /\ handlers[h2].call # Nil
    /\ handlers[h2].text = <<<<"report">>>>
    /\ o.oldestMinor = 9
    /\ o.includeHealthy
    /\ ~handlers[h2].healthy
=============================================================================
